---- MODULE Spec2Model ----
(***************************************************************************)
(* Transfer-matrix computation of reflectance and transmittance spectra    *)
(* of a planar multilayer stack (transfer_matrix_method.py).               *)
(*                                                                         *)
(* Numbers.  The program computes in complex floating point.  The model    *)
(* computes in exact complex rationals: a number (a + b*j)/d is the tuple  *)
(* <<a, b, d>> with d > 0 and gcd(a, b, d) = 1, so equal numbers are equal *)
(* tuples.  Lengths are in nanometres: um (1e-6 m) is 1000 and the yaml    *)
(* thickness (nm) is taken as is.  Angular frequencies are in units of     *)
(* 2*pi*c per nm and wavenumbers in units of 2*pi per nm, so a phase       *)
(* wavenumber*thickness is a number of turns, and exp(-j*phase) is exact   *)
(* whenever the phase is a whole number of quarter turns.  The inputs of   *)
(* the model are chosen so that every phase is.                            *)
(***************************************************************************)
EXTENDS Integers, Sequences, FiniteSets, TLC

\* ------------------------------------------------------------------ bounds
MaxLayers == 2
MaxSamples == 2
MaxPart == 1
MaxWavelength == 3

\* -------------------------------------------------------------- evaluation
\* Let(v, F) is F(v), with v evaluated once (as a bound variable's value)
\* however often F uses it.
Let(v, F(_)) == CHOOSE r \in {F(x) : x \in {v}} : TRUE

\* ------------------------------------------------- exact complex rationals
Abs(x) == Let(x, LAMBDA v : IF v < 0 THEN -v ELSE v)

RECURSIVE GCD(_, _)
GCD(a, b) == Let(<<a, b>>, LAMBDA p : IF p[2] = 0 THEN p[1] ELSE GCD(p[2], p[1] % p[2]))

CNorm(a, b, d) ==
    Let(<<a, b, d>>, LAMBDA p :
    Let(GCD(GCD(Abs(p[1]), Abs(p[2])), Abs(p[3])), LAMBDA g :
        IF p[3] < 0 THEN <<(-p[1]) \div g, (-p[2]) \div g, (-p[3]) \div g>>
                    ELSE <<p[1] \div g, p[2] \div g, p[3] \div g>>))

Cx(a, b) == <<a, b, 1>>
Real(a) == <<a, 0, 1>>
Frac(a, d) == CNorm(a, 0, d)
Zero == Real(0)
One == Real(1)

CAdd(x, y) ==
    Let(<<x, y>>, LAMBDA p :
        CNorm(p[1][1] * p[2][3] + p[2][1] * p[1][3],
              p[1][2] * p[2][3] + p[2][2] * p[1][3],
              p[1][3] * p[2][3]))
CNeg(x) == Let(x, LAMBDA v : <<-v[1], -v[2], v[3]>>)
CSub(x, y) == CAdd(x, CNeg(y))
CMul(x, y) ==
    Let(<<x, y>>, LAMBDA p :
        CNorm(p[1][1] * p[2][1] - p[1][2] * p[2][2],
              p[1][1] * p[2][2] + p[1][2] * p[2][1],
              p[1][3] * p[2][3]))
CConj(x) == Let(x, LAMBDA v : <<v[1], -v[2], v[3]>>)
\* x # Zero
CInv(x) == Let(x, LAMBDA v : CNorm(v[3] * v[1], -(v[3] * v[2]), v[1] * v[1] + v[2] * v[2]))
CDiv(x, y) == CMul(x, CInv(y))
CRe(x) == Let(x, LAMBDA v : CNorm(v[1], 0, v[3]))
IsReal(x) == x[2] = 0

\* ------------------------------------------------------------ 2x2 matrices
\* [[a, b], [c, d]] is <<a, b, c, d>>, each entry a complex rational.
Mat(a, b, c, d) == <<a, b, c, d>>
Identity == Mat(One, Zero, Zero, One)

MMul(A0, B0) ==
    Let(<<A0, B0>>, LAMBDA p :
        LET A == p[1]
            B == p[2]
        IN  Mat(CAdd(CMul(A[1], B[1]), CMul(A[2], B[3])),
                CAdd(CMul(A[1], B[2]), CMul(A[2], B[4])),
                CAdd(CMul(A[3], B[1]), CMul(A[4], B[3])),
                CAdd(CMul(A[3], B[2]), CMul(A[4], B[4]))))

Det(A0) == Let(A0, LAMBDA A : CSub(CMul(A[1], A[4]), CMul(A[2], A[3])))

RECURSIVE ChainProduct(_)
ChainProduct(array) ==
    Let(array, LAMBDA a :
        IF Len(a) = 1 THEN a[1]
        ELSE MMul(ChainProduct(SubSeq(a, 1, Len(a) - 1)), a[Len(a)]))

\* ------------------------------------------------------------- exceptions
\* An exception is its type and its args (the message); NoError is "nothing
\* raised".  A call returns Ok(value) or Fail(type, message).
NoError == [type |-> "none", args |-> <<>>]
Raise(type, msg) == [type |-> type, args |-> <<msg>>]
Ok(v) == [ok |-> TRUE, val |-> v, exc |-> NoError]
Fail(type, msg) == [ok |-> FALSE, val |-> <<>>, exc |-> Raise(type, msg)]

\* ---------------------------------------------------------- python values
\* An attribute holds a list, a float or (Layer.complex) the builtin type.
PyList(s) == [kind |-> "list", items |-> s]
PyFloat(x) == [kind |-> "float", items |-> <<x>>]
PyType == [kind |-> "type", items |-> <<>>]

\* ------------------------------------------------------------------- Light
\* omega, freq, k and the energies are c/wavelength times a constant; each is
\* held in the unit that makes it 1/wavelength.
Light(wavelength0) ==
    Let(wavelength0, LAMBDA wavelength :
        IF wavelength = Zero THEN Fail("ZeroDivisionError", "float division by zero")
        ELSE Let(CDiv(One, wavelength), LAMBDA q :
                 Ok([wavelength_ |-> wavelength, omega |-> q, freq |-> q, k |-> q,
                     energy_J |-> q, energy_ev |-> q])))

\* ------------------------------------------------------------------- Layer
Layer(material, thickness) ==
    [material |-> material, thickness |-> thickness, wavelength |-> PyList(<<>>),
     index |-> PyList(<<>>), extinct |-> PyList(<<>>), complex |-> PyType]

complex_index(self, n, K) == [self EXCEPT !.complex = PyFloat(CAdd(n, CMul(Cx(0, 1), K)))]

\* A csv file is its data rows <<wl, n, K>> (the header is skipped) and
\* whether a row with fewer than three columns follows them; rows after such a
\* row are never read.  The three floats of a row are parsed before any of
\* them is appended.
RECURSIVE AppendRows(_, _)
AppendRows(self0, rows0) ==
    Let(<<self0, rows0>>, LAMBDA p :
        LET self == p[1]
            rows == p[2]
        IN  IF rows = <<>> THEN self
            ELSE AppendRows([self EXCEPT !.wavelength = PyList(Append(@.items, rows[1][1])),
                                         !.index = PyList(Append(@.items, rows[1][2])),
                                         !.extinct = PyList(Append(@.items, rows[1][3]))],
                            Tail(rows)))

get_data_from_csv(self, file) ==
    [self |-> AppendRows(self, file.rows),
     exc |-> IF file.short THEN Raise("IndexError", "list index out of range") ELSE NoError]

\* theta = 0: cos(theta) = 1, sin(theta) = 0.
wavenumber(n, omega) == <<CMul(n, omega), Zero>>

\* exp(j*2*pi*turns), for a real phase of a whole number of quarter turns.
ExpJ(turns) ==
    Let(((4 * turns[1]) \div turns[3]) % 4, LAMBDA q :
        CASE q = 0 -> One
          [] q = 1 -> Cx(0, 1)
          [] q = 2 -> Real(-1)
          [] q = 3 -> Cx(0, -1))

ExactPhase(turns0) == Let(turns0, LAMBDA turns : IsReal(turns) /\ (4 * turns[1]) % turns[3] = 0)

propagation_matrix(self, k) ==
    Let(CMul(k, self.thickness), LAMBDA phi :
        Mat(ExpJ(CNeg(phi)), Zero, Zero, ExpJ(phi)))

\* <<Ds, Dp>> at theta = 0.
dynamical_matrix(n0) ==
    Let(n0, LAMBDA n_ :
        LET m == n_
        IN  <<Mat(One, One, m, CNeg(m)), Mat(One, One, n_, CNeg(n_))>>)

\* --------------------------------------------------------- free functions
multilayer_matrix(array) == ChainProduct(array)

\* A singular matrix gets a substitute (the zero matrix) instead of an error.
inverse_substituted(matrix0) ==
    Let(matrix0, LAMBDA matrix :
    Let(Det(matrix), LAMBDA det :
        IF det = Zero THEN Ok(Mat(Zero, Zero, Zero, Zero))
        ELSE Ok(Mat(CDiv(matrix[4], det), CDiv(CNeg(matrix[2]), det),
                    CDiv(CNeg(matrix[3]), det), CDiv(matrix[1], det)))))

inverse(matrix0) ==
    Let(matrix0, LAMBDA matrix :
    Let(Det(matrix), LAMBDA det :
        IF det = Zero THEN Fail("LinAlgError", "Singular matrix")
        ELSE Ok(Mat(CDiv(matrix[4], det), CDiv(CNeg(matrix[2]), det),
                    CDiv(CNeg(matrix[3]), det), CDiv(matrix[1], det)))))

\* The amplitude's real part taken for the reflectance.
reflectance_amplitude(M0) ==
    Let(M0, LAMBDA M_ :
        IF M_[1] = Zero THEN Fail("ZeroDivisionError", "complex division by zero")
        ELSE Let(CDiv(M_[3], M_[1]), LAMBDA r : Ok(<<CRe(r), r>>)))

\* <<R, r>>
reflectance(M0) ==
    Let(M0, LAMBDA M_ :
        LET M21 == M_[3]
            M11 == M_[1]
        IN  IF M11 = Zero THEN Fail("ZeroDivisionError", "complex division by zero")
            ELSE Let(CDiv(M21, M11), LAMBDA r :
                     Ok(<<CRe(CMul(r, CConj(r))), r>>)))

\* Division as numpy scalars do it: 1/0 is a value, not an error.
transmittance_unchecked(TM0) ==
    Let(TM0, LAMBDA TM :
        IF TM[1] = Zero THEN Ok(<<Zero, Zero>>)
        ELSE Let(CDiv(One, TM[1]), LAMBDA t :
                 Ok(<<CMul(Det(TM), CRe(CMul(t, CConj(t)))), t>>)))

\* <<T, t>>
transmittance(TM0) ==
    Let(TM0, LAMBDA TM :
        LET M11 == TM[1]
        IN  IF M11 = Zero THEN Fail("ZeroDivisionError", "complex division by zero")
            ELSE Let(CDiv(One, M11), LAMBDA t :
                 Let(CRe(CMul(t, CConj(t))), LAMBDA t_sq :
                     Ok(<<CMul(Det(TM), t_sq), t>>))))

\* ------------------------------------------------------------------ inputs
\* The device config and the data files.  A file tabulates its rows on the
\* wavelength grid 1, 2, 3, ... micrometres; thickness is in nm as in the yaml.
um == 1000
nm == 1
Materials == {"Au"}
Thicknesses == {0, 750}
Indices == {0, 2}
Extincts == {0}
GridWavelength(k) == k

RowsOfLength(len) ==
    {[k \in 1..len |-> <<Real(GridWavelength(k)), Real(nk[k][1]), Real(nk[k][2])>>] :
        nk \in [1..len -> Indices \X Extincts]}

Files ==
    {[rows |-> rows, short |-> short] :
        rows \in UNION {RowsOfLength(len) : len \in 0..MaxSamples}, short \in BOOLEAN}

NoFile == [rows |-> <<>>, short |-> FALSE]

\* A layer of the device config: with "param_path" (a csv file), or with
\* literal "index" and "extinction" (a number or a one-element list), or with
\* neither.
Literals == {PyFloat(Real(2)), PyList(<<Real(2)>>)}

LayerEntries ==
    {[material |-> m, thickness |-> t, keys |-> "param_path", file |-> f,
      index |-> PyList(<<>>), extinction |-> PyList(<<>>)] :
        m \in Materials, t \in Thicknesses, f \in Files}
    \cup
    {[material |-> m, thickness |-> t, keys |-> "index", file |-> NoFile,
      index |-> v, extinction |-> [v EXCEPT !.items = [k \in DOMAIN v.items |-> Zero]]] :
        m \in Materials, t \in Thicknesses, v \in Literals}
    \cup
    {[material |-> m, thickness |-> t, keys |-> "none", file |-> NoFile,
      index |-> PyList(<<>>), extinction |-> PyList(<<>>)] :
        m \in Materials, t \in Thicknesses}

\* ------------------------------------------------------ get_layers_from_yaml
\* One pass of the loop over the config's layers: the Layer built from one
\* entry, what is printed, and the exception raised, if any.
ErrorInYaml == "Error in the yaml file."

layer_from_entry(entry) ==
    Let(CMul(Real(entry.thickness), Real(nm)), LAMBDA thickness :
    Let(Layer(entry.material, thickness), LAMBDA layer_class :
        IF entry.keys = "param_path"
        THEN Let(get_data_from_csv(layer_class, entry.file), LAMBDA got :
                 [layer_class |-> got.self, printed |-> <<>>, exc |-> got.exc])
        ELSE IF entry.keys = "index"
        THEN [layer_class |-> [layer_class EXCEPT !.index = entry.index,
                                                  !.extinct = entry.extinction],
              printed |-> <<>>, exc |-> NoError]
        ELSE [layer_class |-> layer_class, printed |-> <<ErrorInYaml>>, exc |-> NoError]))

\* ------------------------------------------------------------- main: sweep
\* value[idx] of python, idx >= 0 counted from 0.
subscript(value, idx) ==
    IF value.kind # "list" THEN Fail("TypeError", "'float' object is not subscriptable")
    ELSE IF idx >= Len(value.items) THEN Fail("IndexError", "list index out of range")
    ELSE Ok(value.items[idx + 1])

\* The body of "for layer in layers" for one layer: <<D, P, Dinv>> or the
\* exception raised.
layer_matrices(layer, idx, omega) ==
    Let(subscript(layer.index, idx), LAMBDA ni :
        IF ~ni.ok THEN ni
        ELSE
    Let(subscript(layer.extinct, idx), LAMBDA Ki :
        IF ~Ki.ok THEN Ki
        ELSE
    Let(CAdd(ni.val, CMul(Cx(0, 1), Ki.val)), LAMBDA n :
    Let(wavenumber(n, omega)[1], LAMBDA kx :
    Let(dynamical_matrix(n)[1], LAMBDA D :
    Let(inverse(D), LAMBDA Dinv :
        IF ~Dinv.ok THEN Dinv
        ELSE Ok(<<D, propagation_matrix(layer, kx), Dinv.val>>)))))))

extend_swapped(M_list, DPDinv) == M_list \o <<DPDinv[1], DPDinv[3], DPDinv[2]>>

\* M_list.extend([D, P, Dinv])
extend(M_list, DPDinv) == M_list \o <<DPDinv[1], DPDinv[2], DPDinv[3]>>

\* The loop over the layers from layer k on: M_list as extended, the D, P,
\* Dinv left bound by the last pass, and the exception that ended the loop.
RECURSIVE layers_loop(_, _, _, _, _)
layers_loop(ls, k0, idx, omega, acc0) ==
    Let(<<k0, acc0>>, LAMBDA p :
        LET k == p[1]
            acc == p[2]
        IN  IF k > Len(ls) THEN acc
            ELSE Let(layer_matrices(ls[k], idx, omega), LAMBDA m :
                     IF ~m.ok THEN [acc EXCEPT !.exc = m.exc]
                     ELSE layers_loop(ls, k + 1, idx, omega,
                                      [acc EXCEPT !.M_list = extend(@, m.val),
                                                  !.last = m.val])))

\* air = Layer('air') and other = Layer('other') as main sets them up.
AirLayer ==
    [Layer("air", Zero) EXCEPT !.index = PyFloat(One), !.extinct = PyFloat(Zero),
                               !.complex = PyFloat(One)]
OtherLayer ==
    [Layer("other", Zero) EXCEPT !.index = PyFloat(Frac(7, 5)), !.extinct = PyFloat(Zero),
                                 !.complex = PyFloat(Frac(7, 5))]

set_index(self, lmbda) == [self EXCEPT !.index = PyFloat(lmbda)]

\* A layer whose index keeps what earlier passes left in it.
set_wavelength_drifting(self, lmbda) ==
    [self EXCEPT !.wavelength = PyFloat(lmbda),
                 !.index = PyFloat(CAdd(@.items[1], One))]

\* air.wavelength = lmbda, other.wavelength = lmbda
set_wavelength(self, lmbda) == [self EXCEPT !.wavelength = PyFloat(lmbda)]

\* The matrices main hands to multilayer_matrix: the D, P, Dinv left bound
\* by the last pass of the loop over the layers, not M_list.
composed_list(M_list, D0inv, last, Ds) == <<D0inv, last[1], last[2], last[3], Ds>>

\* A pass that appends nothing to R and T.
sweep_pass_unappended(ls, wl, idx, loc) == [loc |-> loc, exc |-> NoError]

\* One pass of "for i in range(num_points)" with i = idx, from the locals
\* loc = [air, other, M_list, M_i, R, T]: the locals after the pass and the
\* exception that ended it, if any.
sweep_pass(ls, wl, idx, loc) ==
    Let(CMul(wl[idx + 1], Real(um)), LAMBDA lmbda :
    Let(Light(lmbda), LAMBDA light :
    Let([loc EXCEPT !.M_list = <<>>], LAMBDA start :
        IF ~light.ok THEN [loc |-> start, exc |-> light.exc]
        ELSE
    Let(light.val.omega, LAMBDA omega :
    Let(set_wavelength(loc.air, lmbda), LAMBDA air1 :
    Let(inverse(dynamical_matrix(air1.index.items[1])[1]), LAMBDA D0inv :
    Let([start EXCEPT !.air = air1], LAMBDA at_air :
        IF ~D0inv.ok THEN [loc |-> at_air, exc |-> D0inv.exc]
        ELSE
    Let(layers_loop(ls, 1, idx, omega,
                    [M_list |-> <<D0inv.val>>, last |-> <<>>, exc |-> NoError]), LAMBDA loop :
    Let([at_air EXCEPT !.M_list = loop.M_list], LAMBDA at_loop :
        IF loop.exc # NoError THEN [loc |-> at_loop, exc |-> loop.exc]
        ELSE
    Let(set_wavelength(loc.other, lmbda), LAMBDA other1 :
    Let(dynamical_matrix(other1.index.items[1])[1], LAMBDA Ds :
    Let(Append(loop.M_list, Ds), LAMBDA M_list :
    Let(multilayer_matrix(composed_list(M_list, D0inv.val, loop.last, Ds)), LAMBDA M_i :
    Let([at_loop EXCEPT !.other = other1, !.M_list = M_list, !.M_i = M_i], LAMBDA at_M :
    Let(transmittance(M_i), LAMBDA trn :
        IF ~trn.ok THEN [loc |-> at_M, exc |-> trn.exc]
        ELSE
    Let(reflectance(M_i), LAMBDA ref :
        IF ~ref.ok THEN [loc |-> at_M, exc |-> ref.exc]
        ELSE [loc |-> [at_M EXCEPT !.T = Append(@, CRe(trn.val[1])),
                                   !.R = Append(@, ref.val[1])],
              exc |-> NoError]))))))))))))))))

\* ------------------------------------------------------------------- state
\* pc: "get_layers" (the loop of get_layers_from_yaml), "sweep" (the loop
\* over the wavelength samples), "plots" (R and T handed to the plots),
\* "aborted" (an exception left main); "call" and "returned" for a single
\* call of a function of the module.
VARIABLES pc, num_layers, layers, layer_class, stdout, air, other, wavelen,
          num_points, i, M_list, M_i, R, T, exc, plotted, call

vars == <<pc, num_layers, layers, layer_class, stdout, air, other, wavelen,
          num_points, i, M_list, M_i, R, T, exc, plotted, call>>

NotReturned == [ok |-> FALSE, val |-> <<>>, exc |-> NoError]
NoCall == [fn |-> "main", arg |-> <<>>, ret |-> NotReturned]

\* Arguments of the single calls.
Parts == -MaxPart..MaxPart
Gaussian == {Cx(a, b) : a \in Parts, b \in Parts}
CallWavelengths == {Frac(a, d) : a \in -MaxWavelength..MaxWavelength, d \in {1, 2}}
CallMatrices == {Mat(a, b, c, d) : a \in Gaussian, c \in Gaussian, b \in {Zero, One}, d \in {Zero, One}}

Calls ==
    {[fn |-> "Light", arg |-> w, ret |-> NotReturned] : w \in CallWavelengths}
    \cup {[fn |-> f, arg |-> M, ret |-> NotReturned] :
            f \in {"reflectance", "transmittance"}, M \in CallMatrices}
    \cup {[fn |-> "inverse", arg |-> n, ret |-> NotReturned] : n \in Gaussian}

MainLocals ==
    /\ layers = <<>>
    /\ layer_class = Layer("", Zero)
    /\ stdout = <<>>
    /\ air = AirLayer
    /\ other = OtherLayer
    /\ wavelen = <<>>
    /\ num_points = 0
    /\ i = 0
    /\ M_list = <<>>
    /\ M_i = <<>>
    /\ R = <<>>
    /\ T = <<>>
    /\ exc = NoError
    /\ plotted = <<>>

Init ==
    /\ MainLocals
    /\ \/ /\ pc = "get_layers"
          /\ num_layers \in 1..MaxLayers
          /\ call = NoCall
       \/ /\ pc = "call"
          /\ num_layers = 0
          /\ call \in Calls

\* The phases of a layer built from the entry are whole quarter turns at
\* every sample it tabulates.
ExactEntry(entry) ==
    LET ns == IF entry.keys = "param_path"
              THEN [k \in DOMAIN entry.file.rows |-> entry.file.rows[k][2]]
              ELSE entry.index.items
    IN  \A k \in DOMAIN ns :
            ExactPhase(CDiv(CMul(ns[k], Real(entry.thickness * nm)),
                            Real(GridWavelength(k) * um)))

\* get_layers_from_yaml, one pass of its loop.
GetLayer(entry) ==
    /\ pc = "get_layers"
    /\ Len(layers) < num_layers
    /\ ExactEntry(entry)
    /\ \E got \in {layer_from_entry(entry)} :
           /\ layer_class' = got.layer_class
           /\ stdout' = stdout \o got.printed
           /\ exc' = got.exc
           /\ IF got.exc = NoError
              THEN pc' = pc /\ layers' = Append(layers, got.layer_class)
              ELSE pc' = "aborted" /\ layers' = layers
    /\ UNCHANGED <<num_layers, air, other, wavelen, num_points, i, M_list, M_i, R, T,
                   plotted, call>>

\* main, from the return of get_layers_from_yaml to the head of the sweep.
Setup ==
    /\ pc = "get_layers"
    /\ Len(layers) = num_layers
    /\ wavelen' = layers[1].wavelength.items
    /\ num_points' = Len(layers[1].wavelength.items)
    /\ stdout' = Append(stdout, "num of wavelengths")
    /\ R' = <<>>
    /\ T' = <<>>
    /\ i' = 0
    /\ pc' = "sweep"
    /\ UNCHANGED <<num_layers, layers, layer_class, air, other, M_list, M_i, exc,
                   plotted, call>>

\* One pass of the sweep.
SweepPass ==
    /\ pc = "sweep"
    /\ i < num_points
    /\ \E pass \in {sweep_pass(layers, wavelen, i,
                               [air |-> air, other |-> other, M_list |-> M_list,
                                M_i |-> M_i, R |-> R, T |-> T])} :
           /\ air' = pass.loc.air
           /\ other' = pass.loc.other
           /\ M_list' = pass.loc.M_list
           /\ M_i' = pass.loc.M_i
           /\ R' = pass.loc.R
           /\ T' = pass.loc.T
           /\ exc' = pass.exc
           /\ IF pass.exc = NoError
              THEN pc' = pc /\ i' = i + 1
              ELSE pc' = "aborted" /\ i' = i
    /\ UNCHANGED <<num_layers, layers, layer_class, stdout, wavelen, num_points,
                   plotted, call>>

\* The sweep is over: wavelen, T and R go to the plots.
Plots ==
    /\ pc = "sweep"
    /\ i = num_points
    /\ plotted' = <<[wavelen |-> wavelen, T |-> T, R |-> R]>>
    /\ pc' = "plots"
    /\ UNCHANGED <<num_layers, layers, layer_class, stdout, air, other, wavelen,
                   num_points, i, M_list, M_i, R, T, exc, call>>

Return(fn, ret) ==
    /\ pc = "call"
    /\ call.fn = fn
    /\ call' = [call EXCEPT !.ret = ret]
    /\ pc' = "returned"
    /\ UNCHANGED <<num_layers, layers, layer_class, stdout, air, other, wavelen,
                   num_points, i, M_list, M_i, R, T, exc, plotted>>

CallLight == Return("Light", Light(call.arg))
CallReflectance == Return("reflectance", reflectance(call.arg))
CallTransmittance == Return("transmittance", transmittance(call.arg))
\* inverse(dynamical_matrix(n)[0])
CallInverse == Return("inverse", inverse(dynamical_matrix(call.arg)[1]))

Next ==
    \/ \E entry \in LayerEntries : GetLayer(entry)
    \/ Setup
    \/ SweepPass
    \/ Plots
    \/ CallLight
    \/ CallReflectance
    \/ CallTransmittance
    \/ CallInverse

Spec == Init /\ [][Next]_vars

\* The interpreter runs main's loop to its end: a pass that can run does run,
\* and the statements after the loop follow its last pass.
FairSpec == Spec /\ WF_vars(SweepPass) /\ WF_vars(Plots)

\* ------------------------------------------------------------------ claims
Range(f) == {f[k] : k \in DOMAIN f}

\* The sweep was entered (main printed the number of wavelengths).
SweepEntered == stdout # <<>> /\ stdout[Len(stdout)] = "num of wavelengths"
\* An exception left main from pass i of the sweep.
SweepAborted == pc = "aborted" /\ SweepEntered
\* Pass i - 1 of the sweep was the last to run and ran to its end: M_list and
\* M_i are that pass's.
PassDone == pc \in {"sweep", "plots"} /\ i >= 1

HasSample(layer, idx) ==
    /\ layer.index.kind = "list" /\ idx < Len(layer.index.items)
    /\ layer.extinct.kind = "list" /\ idx < Len(layer.extinct.items)
ComplexIndexAt(layer, idx) ==
    CAdd(layer.index.items[idx + 1], CMul(Cx(0, 1), layer.extinct.items[idx + 1]))
SampleCount(layer) == Len(layer.index.items)

\* C1: at every sample, the matrix M_i that R[i] and T[i] are taken from is
\* the left-to-right product of the full list M_list assembled for the sample.
C1_TransferMatrixIsFullProduct ==
    PassDone => M_i = ChainProduct(M_list)

\* C2: after every pass of the sweep that ran to its end, M_list is the
\* inverse of the ambient dynamical matrix, then D, P, D^-1 of each layer in
\* stack order, then the substrate's dynamical matrix, 3*L + 2 matrices in all
\* (so nothing of an earlier pass is left in it).
C2_AssembledListShape ==
    PassDone =>
        LET L == Len(layers)
            lmbda == CMul(wavelen[i], Real(um))
            n0 == air.index.items[1]
            ns == other.index.items[1]
        IN  /\ Len(M_list) = 3 * L + 2
            /\ MMul(Mat(One, One, n0, CNeg(n0)), M_list[1]) = Identity
            /\ M_list[3 * L + 2] = Mat(One, One, ns, CNeg(ns))
            /\ \A k \in 1..L :
                  LET n == ComplexIndexAt(layers[k], i - 1)
                      phi == CDiv(CMul(n, layers[k].thickness), lmbda)
                  IN  /\ M_list[3 * k - 1] = Mat(One, One, n, CNeg(n))
                      /\ M_list[3 * k] = Mat(ExpJ(CNeg(phi)), Zero, Zero, ExpJ(phi))
                      /\ MMul(M_list[3 * k - 1], M_list[3 * k + 1]) = Identity

\* C2 witness: the second pass over a stack of two layers ran to its end.
C2_Witness == pc = "sweep" /\ i = 2 /\ Len(layers) = 2 /\ Len(M_list) = 8

\* A configuration error: a layer without index or extinction data, or two
\* layers whose sample counts differ.
ConfigurationError ==
    \/ \E k \in DOMAIN layers :
          \/ layers[k].index.kind # "list" \/ layers[k].index.items = <<>>
          \/ layers[k].extinct.kind # "list" \/ layers[k].extinct.items = <<>>
    \/ \E k \in DOMAIN layers, m \in DOMAIN layers :
          \/ SampleCount(layers[k]) # SampleCount(layers[m])
          \/ Len(layers[k].wavelength.items) # Len(layers[m].wavelength.items)

\* C3: the sweep computes no sample for a stack with a configuration error.
C3_NoSampleOnConfigurationError ==
    Len(R) >= 1 => ~ConfigurationError

\* C4: when pass i of the sweep fails, no later sample was processed, R and T
\* went to no consumer, and the error reported carries the index i.
C4_AbortCarriesIndex ==
    SweepAborted =>
        /\ Len(R) = i /\ Len(T) = i
        /\ plotted = <<>>
        /\ ToString(i) \in Range(exc.args)

\* All attributes but wavelength are the same in the two layers.
SameButWavelength(a, b) == [a EXCEPT !.wavelength = b.wavelength] = b
\* after.wavelength is before.wavelength or the wavelength of sample i.
WavelengthOfPass(before, after) ==
    \/ after.wavelength = before.wavelength
    \/ i < num_points /\ after.wavelength = PyFloat(CMul(wavelen[i + 1], Real(um)))

C6_EqualLengths ==
    \A layer \in Range(layers) \cup {layer_class} :
        /\ layer.index.kind = "list" /\ layer.extinct.kind = "list"
        /\ Len(layer.wavelength.items) = Len(layer.index.items)
        /\ Len(layer.index.items) = Len(layer.extinct.items)

\* C7: Light(wavelength) fails for wavelength <= 0 and succeeds for
\* wavelength > 0.
C7_NonPositiveWavelengthFails ==
    pc = "returned" /\ call.fn = "Light" =>
        (call.ret.ok <=> call.arg[1] > 0)

\* C8: reflectance and transmittance raise ZeroDivisionError when M[0,0] = 0,
\* and otherwise return r with r * M[0,0] = M[1,0] and t with t * M[0,0] = 1.
C8_ZeroLeadingElementRaises ==
    pc = "returned" /\ call.fn \in {"reflectance", "transmittance"} =>
        IF call.arg[1] = Zero
        THEN ~call.ret.ok /\ call.ret.exc.type = "ZeroDivisionError"
        ELSE /\ call.ret.ok
             /\ call.fn = "reflectance" => CMul(call.ret.val[2], call.arg[1]) = call.arg[3]
             /\ call.fn = "transmittance" => CMul(call.ret.val[2], call.arg[1]) = One

\* C8 witness: transmittance returned from a matrix with M[0,0] = 0.
C8_Witness == pc = "returned" /\ call.fn = "transmittance" /\ call.arg[1] = Zero

\* C9: inverse raises LinAlgError on the dynamical matrix of n exactly when
\* the matrix is singular, which is exactly when n = 0, and otherwise returns
\* its inverse; a pass of the sweep that meets a layer of complex index 0
\* ends in an exception that leaves main, and a pass that ran to its end met
\* none and assembled true inverses only.
C9_SingularInverseRaised ==
    /\ pc = "returned" /\ call.fn = "inverse" =>
          LET n == call.arg
              D == Mat(One, One, n, CNeg(n))
          IN  /\ ~call.ret.ok <=> Det(D) = Zero
              /\ Det(D) = Zero <=> n = Zero
              /\ ~call.ret.ok => call.ret.exc.type = "LinAlgError"
              /\ call.ret.ok => MMul(D, call.ret.val) = Identity
    /\ SweepAborted /\ exc.type = "LinAlgError" =>
          \E k \in DOMAIN layers :
              HasSample(layers[k], i) /\ ComplexIndexAt(layers[k], i) = Zero
    /\ PassDone =>
          /\ \A k \in DOMAIN layers : ComplexIndexAt(layers[k], i - 1) # Zero
          /\ \A k \in DOMAIN layers :
                MMul(M_list[3 * k - 1], M_list[3 * k + 1]) = Identity
          /\ MMul(Mat(One, One, One, Real(-1)), M_list[1]) = Identity

\* C9 witness: the second pass of the sweep ended in the LinAlgError of a
\* layer of index 0.
C9_Witness == SweepAborted /\ exc.type = "LinAlgError" /\ i = 1

RemoveAt(seq, p) == SubSeq(seq, 1, p - 1) \o SubSeq(seq, p + 1, Len(seq))
\* Every layer of the stack tabulates num_points samples.
UniformStack ==
    \A k \in DOMAIN layers :
        /\ layers[k].index.kind = "list" /\ layers[k].extinct.kind = "list"
        /\ Len(layers[k].wavelength.items) = num_points
        /\ Len(layers[k].index.items) = num_points
        /\ Len(layers[k].extinct.items) = num_points
\* Pass idx of the sweep over the stack ls, from main's initial locals.
PassOver(ls, idx) ==
    sweep_pass(ls, ls[1].wavelength.items, idx,
               [air |-> AirLayer, other |-> OtherLayer, M_list |-> <<>>, M_i |-> <<>>,
                R |-> <<>>, T |-> <<>>])

\* C10: in a stack of two or more layers, a layer of thickness 0 has the
\* identity as its propagation matrix, and the sweep over the stack without
\* it gives the R and T of the sweep over the stack with it, at every sample.
C10_ZeroThicknessLayerRemovable ==
    PassDone /\ Len(layers) >= 2 /\ UniformStack =>
        \A p \in DOMAIN layers :
            layers[p].thickness = Zero =>
                /\ M_list[3 * p] = Identity
                /\ LET without == PassOver(RemoveAt(layers, p), i - 1)
                   IN  /\ without.exc = NoError
                       /\ without.loc.R[1] = R[i]
                       /\ without.loc.T[1] = T[i]

\* Sample idx of the stack is lossless: extinction 0 in every layer, real
\* indices in the layers, the ambient and the substrate.
Lossless(idx) ==
    /\ \A k \in DOMAIN layers :
          /\ HasSample(layers[k], idx)
          /\ layers[k].extinct.items[idx + 1] = Zero
          /\ IsReal(layers[k].index.items[idx + 1])
    /\ air.extinct.items[1] = Zero /\ IsReal(air.index.items[1])
    /\ other.extinct.items[1] = Zero /\ IsReal(other.index.items[1])

\* C11: at every sample of a lossless stack for which the sweep appended R and
\* T, R + T is 1 (in exact arithmetic, so within any tolerance).
C11_LosslessEnergyConserved ==
    \A k \in 1..Len(R) :
        Lossless(k - 1) /\ k <= Len(T) => CAdd(R[k], T[k]) = One

\* C11 witness: the sweep gave R = 169/729 and T = 560/729 at the second
\* sample of a lossless stack (a quarter-wave layer).
C11_Witness ==
    /\ Len(R) = 2 /\ Len(T) = 2 /\ Lossless(1)
    /\ R[2] = Frac(169, 729) /\ T[2] = Frac(560, 729)

\* The stack is valid: every layer tabulates num_points samples and no sample
\* has the complex index 0.
ValidStack ==
    /\ SweepEntered /\ pc \in {"sweep", "plots"}
    /\ UniformStack
    /\ \A k \in DOMAIN layers : \A idx \in 1..num_points :
           layers[k].index.items[idx] # Zero \/ layers[k].extinct.items[idx] # Zero

\* <<R, T>> as extracted from the matrices assembled from sample idx of every
\* layer and from wavelength idx.
ExtractedAt(idx) ==
    LET lmbda == CMul(wavelen[idx + 1], Real(um))
        D0inv == inverse(dynamical_matrix(AirLayer.index.items[1])[1]).val
        Ds == dynamical_matrix(OtherLayer.index.items[1])[1]
        loop == layers_loop(layers, 1, idx, Light(lmbda).val.omega,
                            [M_list |-> <<D0inv>>, last |-> <<>>, exc |-> NoError])
        M == multilayer_matrix(composed_list(Append(loop.M_list, Ds), D0inv, loop.last, Ds))
    IN  <<reflectance(M).val[1], CRe(transmittance(M).val[1])>>

\* All samples of a valid stack are processed: R and T hold one value for each.
SweepCompleted ==
    pc = "plots" /\ i = num_points /\ Len(R) = num_points /\ Len(T) = num_points

Outcome(pass) ==
    IF pass.exc = NoError
    THEN <<"appended", pass.loc.R[Len(pass.loc.R)], pass.loc.T[Len(pass.loc.T)]>>
    ELSE <<"raised", pass.exc>>
\* main's locals as a pass of the sweep finds them.
Locals == [air |-> air, other |-> other, M_list |-> M_list, M_i |-> M_i, R |-> R, T |-> T]

\* C13: once passes of the sweep have run, whatever they left in main's
\* locals, the pass of any sample k, next in order or not, gives the R[k] and
\* T[k] the sweep recorded for it (so does a second run) and, for a sample not
\* reached yet, what its pass gives from main's initial locals.
C13_SamplesIndependent ==
    [](pc = "sweep" /\ i >= 1 =>
          \A k \in 0..(num_points - 1) :
              Outcome(sweep_pass(layers, wavelen, k, Locals)) =
                  IF k < Len(R) THEN <<"appended", R[k + 1], T[k + 1]>>
                  ELSE Outcome(PassOver(layers, k)))

\* C13 witness: the sweep recorded two samples of different reflectance, and
\* the ambient holds the wavelength the second pass left in it.
C13_Witness ==
    /\ pc = "sweep" /\ i = 2 /\ Len(R) = 2 /\ R[1] # R[2]
    /\ air.wavelength = PyFloat(CMul(wavelen[2], Real(um)))
====
